---- MODULE Spec2Model ----
(***************************************************************************)
(* Persistence layer of the SAM chat bot: DatabaseConnector                *)
(* (src/bot/persistence/database_connector.py), and the handlers of the    *)
(* admin component that use it (src/bot/admin/admin.py).                   *)
(*                                                                         *)
(* Every public method of the connector is a short program of statements   *)
(* run inside one `with DatabaseManager(...)` scope: execute(query, args), *)
(* ..., commit().  The programs are translated from the connector; the     *)
(* query texts (bot/persistence/queries.py), the schema (init_db.sql) and  *)
(* the scope itself (bot/persistence/database_manager.py) are not part of  *)
(* the sources at hand and are modelled from the specification.            *)
(***************************************************************************)
EXTENDS Integers, Sequences, FiniteSets, TLC

(* ------------------------------ bounds --------------------------------- *)
\* longest requested_groups argument
MaxLen == 2
\* most GroupOffer + GroupRequest rows an accepted insert may lead to
MaxRows == 4
\* modmail message ids are 1..MaxModmail
MaxModmail == 2

\* longest text of a schema script, in symbols
MaxScript == 3
\* most constructions with a script in one process
MaxLoads == 2
\* most invocations of the botonly command for one channel
MaxInvocations == 3

Users == {"A", "B"}
Courses == {"X", "Y"}
Groups == {1, 2}
\* requested_groups arguments: finite sequences of group numbers (duplicates allowed)
GroupLists == UNION {[1..n -> Groups] : n \in 0..MaxLen}

\* message ids of the announcements
MessageIds == {"m1", "m2"}
\* placeholder of GroupOffer.MessageId until the announcement exists
Undefined == "undefined"

\* modmail message ids, authors (name#discriminator) and submission times
ModmailIds == 1..MaxModmail
Authors == {"ann#0001", "bob#0002"}
Timestamps == {"t1", "t2"}

\* role ids of add_module_role / remove_module_role, channel ids of the bot-only methods
Roles == {101, 102, 103}
Channels == {7, 8}

\* bot.moderation.ModmailStatus: the closed enumeration and its stored values
Statuses == {"Open", "InProgress", "Closed"}
StatusValue(status) ==
    CASE status = "Open" -> 0 [] status = "InProgress" -> 1 [] status = "Closed" -> 2
\* ModmailStatus(value): the member with that value
ModmailStatus(value) == CHOOSE status \in Statuses : StatusValue(status) = value

(* ------------------------------ the store ------------------------------ *)
\* the tables of the schema script, and the store right after a construction that
\* has created them all; File says that the storage file exists
Tables == {"GroupOffer", "GroupRequest", "Modmail", "ModuleRole", "BotOnly"}
EmptyDb == [GroupOffer |-> {}, GroupRequest |-> {}, Modmail |-> {}, ModuleRole |-> {},
            BotOnly |-> {}, Schema |-> Tables, File |-> TRUE]
\* the store while the storage file does not exist
AbsentDb == [EmptyDb EXCEPT !.Schema = {}, !.File = FALSE]
ModmailRow(id, author, timestamp, value) ==
    [ID |-> id, Author |-> author, Timestamp |-> timestamp, StatusID |-> value]
ModmailOf(d, id) == {t \in d.Modmail : t.ID = id}

OfferRow(u, c, g, m) == [UserId |-> u, Course |-> c, GroupNr |-> g, MessageId |-> m]
RequestRow(u, c, g) == [UserId |-> u, Course |-> c, GroupNr |-> g]

OffersOf(d, u, c) == {o \in d.GroupOffer : o.UserId = u /\ o.Course = c}
RequestsOf(d, u, c) == {r \in d.GroupRequest : r.UserId = u /\ r.Course = c}
BotOnlyRow(channel, state) == [Channel |-> channel, State |-> state]
BotOnlyOf(d, channel) == {b \in d.BotOnly : b.Channel = channel}
RowCount(d) ==
    Cardinality(d.GroupOffer) + Cardinality(d.GroupRequest) + Cardinality(d.Modmail)
        + Cardinality(d.ModuleRole) + Cardinality(d.BotOnly)

(* --------------------------- the schema script ------------------------- *)
\* The text of a script, symbol by symbol: "o" is the text of `CREATE TABLE
\* GroupOffer (...)`, "r" that of `CREATE TABLE GroupRequest (...)`, ";" the
\* separator.
ScriptChars == {"o", "r", ";"}
Scripts == UNION {[1..n -> ScriptChars] : n \in 0..MaxScript}
CreatedBy(char) == IF char = "o" THEN "GroupOffer" ELSE "GroupRequest"

\* sql_file.split(';') (database_connector.py:273): the pieces between the
\* separators, in order; a text without separator is one piece, and the piece
\* after a closing separator is the empty text
RECURSIVE split(_)
split(text) ==
    IF \A k \in 1..Len(text) : text[k] # ";"
    THEN <<text>>
    ELSE LET k == CHOOSE i \in 1..Len(text) :
                    text[i] = ";" /\ \A j \in 1..(i - 1) : text[j] # ";"
         IN <<SubSeq(text, 1, k - 1)>> \o split(SubSeq(text, k + 1, Len(text)))

\* database_connector.py:270-273, for a file with this text
parse_sql_file(text) == split(text)

(* --------------------------- the statements ---------------------------- *)
\* result of one execute(): raised, or the store of the connection and the rows
Raised(d) == [ok |-> FALSE, db |-> d, rows |-> {}]
Done(d, rows) == [ok |-> TRUE, db |-> d, rows |-> rows]

\* INSERT INTO GroupOffer: primary key (UserId, Course), MessageId starts undefined
INSERT_GROUP_OFFER(d, p) ==
    IF OffersOf(d, p[1], p[2]) # {}
    THEN Raised(d)
    ELSE Done([d EXCEPT !.GroupOffer = @ \cup {OfferRow(p[1], p[2], p[3], Undefined)}], {})

\* INSERT INTO GroupRequest: primary key (UserId, Course, GroupNr)
INSERT_GROUP_REQUEST(d, p) ==
    IF RequestRow(p[1], p[2], p[3]) \in d.GroupRequest
    THEN Raised(d)
    ELSE Done([d EXCEPT !.GroupRequest = @ \cup {RequestRow(p[1], p[2], p[3])}], {})

\* UPDATE GroupOffer SET MessageId = ? WHERE UserId = ? AND Course = ?
UPDATE_GROUP_MESSAGE_ID(d, p) ==
    Done([d EXCEPT !.GroupOffer =
            {IF o.UserId = p[2] /\ o.Course = p[3] THEN [o EXCEPT !.MessageId = p[1]] ELSE o
                : o \in @}], {})

\* DELETE FROM GroupOffer WHERE UserId = ? AND Course = ?
REMOVE_GROUP_EXCHANGE_OFFER(d, p) ==
    Done([d EXCEPT !.GroupOffer = @ \ OffersOf(d, p[1], p[2])], {})

\* DELETE FROM GroupRequest WHERE UserId = ? AND Course = ?
REMOVE_GROUP_EXCHANGE_REQUESTS(d, p) ==
    Done([d EXCEPT !.GroupRequest = @ \ RequestsOf(d, p[1], p[2])], {})

\* SELECT MessageId FROM GroupOffer WHERE UserId = ? AND Course = ?
GET_GROUP_EXCHANGE_MESSAGE(d, p) ==
    Done(d, {<<o.MessageId>> : o \in OffersOf(d, p[1], p[2])})

\* SELECT offer.UserId, offer.MessageId FROM GroupOffer offer JOIN GroupRequest request
\*   ON the same (UserId, Course)
\*   WHERE offer.UserId != ? AND offer.Course = ? AND request.GroupNr = ?
\*     AND offer.GroupNr IN ({0})
\* with n placeholders formatted into {0}; the parameters bind by position, and a
\* parameter count other than the placeholder count is a binding error.
FIND_GROUP_EXCHANGE_CANDIDATES(d, n, p) ==
    IF Len(p) # 3 + n
    THEN Raised(d)
    ELSE Done(d, {<<o.UserId, o.MessageId>> : o \in
            {o \in d.GroupOffer :
                /\ o.UserId # p[1]
                /\ o.Course = p[2]
                /\ \E i \in 1..n : o.GroupNr = p[3 + i]
                /\ \E r \in d.GroupRequest :
                    r.UserId = o.UserId /\ r.Course = o.Course /\ r.GroupNr = p[3]}})

\* SELECT Course, offer.GroupNr, request.GroupNr FROM GroupOffer offer JOIN GroupRequest
\*   request ON the same (UserId, Course) WHERE offer.UserId = ?
GET_GROUP_EXCHANGE_FOR_USER(d, p) ==
    Done(d, UNION {{<<o.Course, o.GroupNr, r.GroupNr>> : r \in RequestsOf(d, o.UserId, o.Course)}
                    : o \in {x \in d.GroupOffer : x.UserId = p[1]}})

\* INSERT INTO Modmail (ID, Author, Timestamp): primary key ID, the status defaults
\* to Open
INSERT_MODMAIL(d, p) ==
    IF ModmailOf(d, p[1]) # {}
    THEN Raised(d)
    ELSE Done([d EXCEPT !.Modmail = @ \cup {ModmailRow(p[1], p[2], p[3], StatusValue("Open"))}],
              {})

\* SELECT StatusID FROM Modmail WHERE ID = ?
GET_MODMAIL_STATUS(d, p) ==
    Done(d, {<<t.StatusID>> : t \in ModmailOf(d, p[1])})

\* variant with one slip: UPDATE Modmail SET StatusID = StatusID + ? WHERE ID = ?
CHANGE_MODMAIL_STATUS_relative(d, p) ==
    Done([d EXCEPT !.Modmail =
            {IF t.ID = p[2] THEN [t EXCEPT !.StatusID = (@ + p[1]) % 3] ELSE t : t \in @}], {})

\* UPDATE Modmail SET StatusID = ? WHERE ID = ?
CHANGE_MODMAIL_STATUS(d, p) ==
    Done([d EXCEPT !.Modmail =
            {IF t.ID = p[2] THEN [t EXCEPT !.StatusID = p[1]] ELSE t : t \in @}], {})

\* variant with one slip: ... WHERE StatusID >= ?
GET_ALL_MODMAIL_WITH_STATUS_at_least(d, p) ==
    Done(d, {<<t.ID, t.Author, t.Timestamp>> : t \in {x \in d.Modmail : x.StatusID >= p[1]}})

\* SELECT ID, Author, Timestamp FROM Modmail WHERE StatusID = ?
GET_ALL_MODMAIL_WITH_STATUS(d, p) ==
    Done(d, {<<t.ID, t.Author, t.Timestamp>> : t \in {x \in d.Modmail : x.StatusID = p[1]}})

\* INSERT INTO ModuleRole: primary key RoleId
INSERT_MODULE_ROLE(d, p) ==
    IF p[1] \in d.ModuleRole
    THEN Raised(d)
    ELSE Done([d EXCEPT !.ModuleRole = @ \cup {p[1]}], {})

\* variants with one slip: DELETE FROM ModuleRole without the WHERE clause, and a
\* delete that fails when it finds no row
REMOVE_MODULE_ROLE_all(d, p) ==
    Done([d EXCEPT !.ModuleRole = {}], {})

REMOVE_MODULE_ROLE_strict(d, p) ==
    IF p[1] \notin d.ModuleRole
    THEN Raised(d)
    ELSE Done([d EXCEPT !.ModuleRole = @ \ {p[1]}], {})

\* DELETE FROM ModuleRole WHERE RoleId = ?
REMOVE_MODULE_ROLE(d, p) ==
    Done([d EXCEPT !.ModuleRole = @ \ {p[1]}], {})

\* SELECT State FROM BotOnly WHERE Channel = ?
IS_CHANNEL_BOTONLY(d, p) ==
    Done(d, {<<b.State>> : b \in BotOnlyOf(d, p[1])})

\* variant with one slip: a plain INSERT, which fails when the channel has a row
ACTIVATE_BOTONLY_FOR_CHANNEL_insert(d, p) ==
    IF BotOnlyOf(d, p[1]) # {}
    THEN Raised(d)
    ELSE Done([d EXCEPT !.BotOnly = @ \cup {BotOnlyRow(p[1], 1)}], {})

\* insert or replace the row of the channel, with state 1
ACTIVATE_BOTONLY_FOR_CHANNEL(d, p) ==
    Done([d EXCEPT !.BotOnly = (@ \ BotOnlyOf(d, p[1])) \cup {BotOnlyRow(p[1], 1)}], {})

\* insert or replace the row of the channel, with state 0
DEACTIVATE_BOTONLY_FOR_CHANNEL(d, p) ==
    Done([d EXCEPT !.BotOnly = (@ \ BotOnlyOf(d, p[1])) \cup {BotOnlyRow(p[1], 0)}], {})

\* execute(query) of one piece of the schema script: the empty text does nothing,
\* a piece that is one CREATE TABLE creates the table or fails because the table
\* exists, any other piece is not a statement and fails
SCHEMA_STATEMENT(d, p) ==
    IF p = <<>>
    THEN Done(d, {})
    ELSE IF Len(p) > 1 \/ CreatedBy(p[1]) \in d.Schema
    THEN Raised(d)
    ELSE Done([d EXCEPT !.Schema = @ \cup {CreatedBy(p[1])}], {})

\* the tables a statement reads or writes
TablesOf(q) ==
    CASE q \in {"INSERT_GROUP_OFFER", "UPDATE_GROUP_MESSAGE_ID", "REMOVE_GROUP_EXCHANGE_OFFER",
                "GET_GROUP_EXCHANGE_MESSAGE"} -> {"GroupOffer"}
      [] q \in {"INSERT_GROUP_REQUEST", "REMOVE_GROUP_EXCHANGE_REQUESTS"} -> {"GroupRequest"}
      [] q \in {"FIND_GROUP_EXCHANGE_CANDIDATES", "GET_GROUP_EXCHANGE_FOR_USER"} ->
            {"GroupOffer", "GroupRequest"}
      [] q \in {"INSERT_MODMAIL", "GET_MODMAIL_STATUS", "CHANGE_MODMAIL_STATUS",
                "GET_ALL_MODMAIL_WITH_STATUS"} -> {"Modmail"}
      [] q \in {"INSERT_MODULE_ROLE", "REMOVE_MODULE_ROLE"} -> {"ModuleRole"}
      [] q \in {"IS_CHANNEL_BOTONLY", "ACTIVATE_BOTONLY_FOR_CHANNEL",
                "DEACTIVATE_BOTONLY_FOR_CHANNEL"} -> {"BotOnly"}
      [] OTHER -> {}

\* a schema statement is durable as soon as it has run, as is what a commit() covers
Autocommit(s) == s.q \in {"commit", "SCHEMA"}

\* a statement of a connector method: execute(q, p), or commit(); n is the number
\* of placeholders formatted into the query text, try says that the statement
\* stands in a try block whose except clause goes on with the next statement
Stmt(q, p) == [q |-> q, p |-> p, n |-> 0, try |-> FALSE]
Commit == [q |-> "commit", p |-> <<>>, n |-> 0, try |-> FALSE]

\* db_manager.execute(query, parameters) on the connection's store
execute(d, s) ==
    IF ~(TablesOf(s.q) \subseteq d.Schema) THEN Raised(d) ELSE
    CASE s.q = "INSERT_GROUP_OFFER" -> INSERT_GROUP_OFFER(d, s.p)
      [] s.q = "INSERT_GROUP_REQUEST" -> INSERT_GROUP_REQUEST(d, s.p)
      [] s.q = "UPDATE_GROUP_MESSAGE_ID" -> UPDATE_GROUP_MESSAGE_ID(d, s.p)
      [] s.q = "REMOVE_GROUP_EXCHANGE_OFFER" -> REMOVE_GROUP_EXCHANGE_OFFER(d, s.p)
      [] s.q = "REMOVE_GROUP_EXCHANGE_REQUESTS" -> REMOVE_GROUP_EXCHANGE_REQUESTS(d, s.p)
      [] s.q = "GET_GROUP_EXCHANGE_MESSAGE" -> GET_GROUP_EXCHANGE_MESSAGE(d, s.p)
      [] s.q = "FIND_GROUP_EXCHANGE_CANDIDATES" -> FIND_GROUP_EXCHANGE_CANDIDATES(d, s.n, s.p)
      [] s.q = "GET_GROUP_EXCHANGE_FOR_USER" -> GET_GROUP_EXCHANGE_FOR_USER(d, s.p)
      [] s.q = "INSERT_MODMAIL" -> INSERT_MODMAIL(d, s.p)
      [] s.q = "GET_MODMAIL_STATUS" -> GET_MODMAIL_STATUS(d, s.p)
      [] s.q = "CHANGE_MODMAIL_STATUS" -> CHANGE_MODMAIL_STATUS(d, s.p)
      [] s.q = "GET_ALL_MODMAIL_WITH_STATUS" -> GET_ALL_MODMAIL_WITH_STATUS(d, s.p)
      [] s.q = "INSERT_MODULE_ROLE" -> INSERT_MODULE_ROLE(d, s.p)
      [] s.q = "REMOVE_MODULE_ROLE" -> REMOVE_MODULE_ROLE(d, s.p)
      [] s.q = "IS_CHANNEL_BOTONLY" -> IS_CHANNEL_BOTONLY(d, s.p)
      [] s.q = "ACTIVATE_BOTONLY_FOR_CHANNEL" -> ACTIVATE_BOTONLY_FOR_CHANNEL(d, s.p)
      [] s.q = "DEACTIVATE_BOTONLY_FOR_CHANNEL" -> DEACTIVATE_BOTONLY_FOR_CHANNEL(d, s.p)
      [] s.q = "SCHEMA" -> SCHEMA_STATEMENT(d, s.p)

(* ------------------------- the connection scope ------------------------ *)
\* `with DatabaseManager(db_file) as db_manager:` running the statements prog[i..]:
\* the connection works on its own view `conn` of the store, commit() makes the
\* view the persisted store, and leaving the scope closes the connection, which
\* drops what was not committed.  `fault` is the statement at which the storage
\* engine fails (or the process stops); 0 is no fault.
RECURSIVE RunFrom(_, _, _, _, _, _)
RunFrom(prog, i, conn, persisted, rows, fault) ==
    IF i > Len(prog)
    THEN [db |-> persisted, raised |-> FALSE, rows |-> rows]
    ELSE LET r == IF i = fault THEN Raised(conn)
                  ELSE IF prog[i].q = "commit" THEN Done(conn, rows)
                  ELSE execute(conn, prog[i])
         IN
         IF r.ok
         THEN RunFrom(prog, i + 1, r.db, IF Autocommit(prog[i]) THEN r.db ELSE persisted,
                      r.rows, fault)
         ELSE IF prog[i].try
         THEN RunFrom(prog, i + 1, conn, persisted, rows, fault)
         ELSE [db |-> persisted, raised |-> TRUE, rows |-> {}]

DatabaseManager(persisted, prog, fault) == RunFrom(prog, 1, persisted, persisted, {}, fault)

\* entering a scope opens a handle of its own, leaving it (by return or by an
\* error) closes it
FreshHandle(h) ==
    LET open == UNION {h[p] : p \in DOMAIN h} IN
    CHOOSE k \in 1..(Cardinality(open) + 1) : k \notin open /\ \A j \in 1..(k - 1) : j \in open
Acquire(h, p) == [h EXCEPT ![p] = @ \cup {FreshHandle(h)}]
\* variant with one slip: the handle is closed on return only
Release_on_return(h, p, raised) == IF raised THEN h ELSE [h EXCEPT ![p] = {}]
Release(h, p, raised) == [h EXCEPT ![p] = {}]

(* ------------------------ the connector methods ------------------------ *)
\* variant with one slip: the statements of the script outside a try block
bootstrap_no_try(queries_) ==
    [i \in 1..Len(queries_) |-> Stmt("SCHEMA", queries_[i])]

\* database_connector.py:34-38: each query of the script in its own try block
bootstrap(queries_) ==
    [i \in 1..Len(queries_) |-> [Stmt("SCHEMA", queries_[i]) EXCEPT !.try = TRUE]]

\* database_connector.py:46-48
add_module_role(role_id) ==
    <<Stmt("INSERT_MODULE_ROLE", <<role_id>>), Commit>>

\* database_connector.py:56-58
remove_module_role(role_id) ==
    <<Stmt("REMOVE_MODULE_ROLE", <<role_id>>), Commit>>

\* database_connector.py:218-219; channel is the id of the channel object
is_botonly(channel) ==
    <<Stmt("IS_CHANNEL_BOTONLY", <<channel>>)>>

\* database_connector.py:232-234
activate_botonly(channel) ==
    <<Stmt("ACTIVATE_BOTONLY_FOR_CHANNEL", <<channel>>), Commit>>

\* database_connector.py:242-244
deactivate_botonly(channel) ==
    <<Stmt("DEACTIVATE_BOTONLY_FOR_CHANNEL", <<channel>>), Commit>>

\* variants of add_modmail with one slip: no commit, and the insert's error caught
add_modmail_no_commit(msg_id, author, timestamp) ==
    <<Stmt("INSERT_MODMAIL", <<msg_id, author, timestamp>>)>>

add_modmail_skip_errors(msg_id, author, timestamp) ==
    <<[Stmt("INSERT_MODMAIL", <<msg_id, author, timestamp>>) EXCEPT !.try = TRUE], Commit>>

\* database_connector.py:69-71
add_modmail(msg_id, author, timestamp) ==
    <<Stmt("INSERT_MODMAIL", <<msg_id, author, timestamp>>), Commit>>

\* database_connector.py:82-83
get_modmail_status(msg_id) ==
    <<Stmt("GET_MODMAIL_STATUS", <<msg_id>>)>>

\* variants with one slip: a ticket is added when the id has none; the parameters
\* in the order of the signature; no commit
change_modmail_status_or_add(msg_id, status) ==
    <<[Stmt("INSERT_MODMAIL", <<msg_id, "unknown", "unknown">>) EXCEPT !.try = TRUE],
      Stmt("CHANGE_MODMAIL_STATUS", <<StatusValue(status), msg_id>>), Commit>>

change_modmail_status_as_signed(msg_id, status) ==
    <<Stmt("CHANGE_MODMAIL_STATUS", <<msg_id, StatusValue(status)>>), Commit>>

change_modmail_status_no_commit(msg_id, status) ==
    <<Stmt("CHANGE_MODMAIL_STATUS", <<StatusValue(status), msg_id>>)>>

\* database_connector.py:97-99
change_modmail_status(msg_id, status) ==
    <<Stmt("CHANGE_MODMAIL_STATUS", <<StatusValue(status), msg_id>>), Commit>>

\* database_connector.py:110-111
get_all_modmail_with_status(status) ==
    <<Stmt("GET_ALL_MODMAIL_WITH_STATUS", <<StatusValue(status)>>)>>

\* variants of the methods below, each with one slip: a commit after every insert,
\* and inserts whose errors are caught and skipped
add_group_offer_and_requests_commit_each(user_id, course, offered_group, requested_groups) ==
    <<Stmt("INSERT_GROUP_OFFER", <<user_id, course, offered_group>>), Commit>>
    \o [i \in 1..(2 * Len(requested_groups)) |->
            IF i % 2 = 1
            THEN Stmt("INSERT_GROUP_REQUEST", <<user_id, course, requested_groups[(i + 1) \div 2]>>)
            ELSE Commit]

add_group_offer_and_requests_skip_errors(user_id, course, offered_group, requested_groups) ==
    <<[Stmt("INSERT_GROUP_OFFER", <<user_id, course, offered_group>>) EXCEPT !.try = TRUE]>>
    \o [i \in 1..Len(requested_groups) |->
            [Stmt("INSERT_GROUP_REQUEST", <<user_id, course, requested_groups[i]>>)
                EXCEPT !.try = TRUE]]
    \o <<Commit>>

\* database_connector.py:130-134
add_group_offer_and_requests(user_id, course, offered_group, requested_groups) ==
    <<Stmt("INSERT_GROUP_OFFER", <<user_id, course, offered_group>>)>>
    \o [i \in 1..Len(requested_groups) |->
            Stmt("INSERT_GROUP_REQUEST", <<user_id, course, requested_groups[i]>>)]
    \o <<Commit>>

\* variant with one slip: the parameters in the order of the signature
update_group_exchange_message_id_as_signed(user_id, course, message_id) ==
    <<Stmt("UPDATE_GROUP_MESSAGE_ID", <<user_id, course, message_id>>), Commit>>

\* database_connector.py:149-151
update_group_exchange_message_id(user_id, course, message_id) ==
    <<Stmt("UPDATE_GROUP_MESSAGE_ID", <<message_id, user_id, course>>), Commit>>

\* variants with one slip: a commit between the two deletes, and the offer delete alone
remove_group_exchange_offer_commit_each(user_id, course) ==
    <<Stmt("REMOVE_GROUP_EXCHANGE_OFFER", <<user_id, course>>), Commit,
      Stmt("REMOVE_GROUP_EXCHANGE_REQUESTS", <<user_id, course>>), Commit>>

remove_group_exchange_offer_only(user_id, course) ==
    <<Stmt("REMOVE_GROUP_EXCHANGE_OFFER", <<user_id, course>>), Commit>>

\* database_connector.py:204-207
remove_group_exchange_offer(user_id, course) ==
    <<Stmt("REMOVE_GROUP_EXCHANGE_OFFER", <<user_id, course>>),
      Stmt("REMOVE_GROUP_EXCHANGE_REQUESTS", <<user_id, course>>),
      Commit>>

\* variant with one slip: the offered group bound after the requested groups
get_candidates_offered_group_last(author_id, course, offered_group, requested_groups, one_shot) ==
    <<[q |-> "FIND_GROUP_EXCHANGE_CANDIDATES",
       p |-> <<author_id, course>> \o requested_groups \o <<offered_group>>,
       n |-> IF one_shot THEN 0 ELSE Len(requested_groups),
       try |-> FALSE]>>

\* database_connector.py:169-173.  requested_groups is an Iterable: list() walks it
\* once for the parameters, the generator of '?' walks it again for the
\* placeholders, and an iterable that can be walked only once is empty by then.
get_candidates_for_group_exchange(author_id, course, offered_group, requested_groups, one_shot) ==
    <<[q |-> "FIND_GROUP_EXCHANGE_CANDIDATES",
       p |-> <<author_id, course, offered_group>> \o requested_groups,
       n |-> IF one_shot THEN 0 ELSE Len(requested_groups),
       try |-> FALSE]>>

\* database_connector.py:189-190
get_group_exchange_message(user_id, course) ==
    <<Stmt("GET_GROUP_EXCHANGE_MESSAGE", <<user_id, course>>)>>

\* database_connector.py:252-253
get_group_exchange_for_user(user_id) ==
    <<Stmt("GET_GROUP_EXCHANGE_FOR_USER", <<user_id>>)>>

\* what a method hands back: no value, `rows if rows else None` after fetchall()
\* (database_connector.py:174-177), and `rows[0] if rows else None` after fetchone()
\* (database_connector.py:191-195)
NoValue == [none |-> TRUE, rows |-> {}]
\* variant with one slip: `return rows` without the test for no rows
FetchAllAsIs(rows) == [none |-> FALSE, rows |-> rows]
FetchAllOrNone(rows) == [none |-> rows = {}, rows |-> rows]
FetchOneOrNone(rows) ==
    IF rows = {} THEN NoValue ELSE [none |-> FALSE, rows |-> {(CHOOSE r \in rows : TRUE)[1]}]
\* variant with one slip: Open for a message id without a row
FetchStatusOrOpen(rows) ==
    IF rows = {} THEN [none |-> FALSE, rows |-> {"Open"}]
    ELSE [none |-> FALSE, rows |-> {ModmailStatus((CHOOSE r \in rows : TRUE)[1])}]
\* `ModmailStatus(row[0]) if row is not None else None` after fetchone()
\* (database_connector.py:85-88)
FetchStatusOrNone(rows) ==
    IF rows = {} THEN NoValue
    ELSE [none |-> FALSE, rows |-> {ModmailStatus((CHOOSE r \in rows : TRUE)[1])}]

\* `rows[0] if rows else 0` after fetchone() (database_connector.py:220-223)
FetchFlagOrZero(rows) ==
    [none |-> FALSE, rows |-> {IF rows = {} THEN 0 ELSE (CHOOSE r \in rows : TRUE)[1]}]

(* --------------------------- the state machine ------------------------- *)
\* db: the persisted store (the database file).
\* last: the connector call that has just returned to its caller: the method, its
\*       arguments, the statement at which the storage engine failed (0: none),
\*       the number of rows stored before the call, whether the call raised, and
\*       the value it returned; op = "none" while the caller is between calls.
\* tx: per caller, the connector call it is inside of when calls interleave
\*       statement by statement: the method and its arguments, the statements,
\*       the next one, the connection's view of the store and whether the
\*       connection has written (and so holds the store's write lock).
\* serial: the store after the calls that have returned so far, each applied as
\*       a whole, in the order of their return.
\* opened: the modmail ids whose add_modmail has returned and whose status no
\*       change_modmail_status has been asked to change since.
\* tickets: per modmail id, what the calls that returned so far say about it:
\*       "absent" while no add_modmail for it has returned, then the status of
\*       the last change_modmail_status that returned (Open before the first).
\* recent: per channel, the activate_botonly or deactivate_botonly call that
\*       returned most recently ("none" before the first).
\* message: per (user, course), the message id the calls that returned so far
\*       have attached to its offer ("absent" when it has no offer).
\* handles: per owner of a connection scope, the storage handles it has open.
\* boot: the construction of the connector: the arguments (whether db_file is
\*       set, the init_script), whether the storage file existed, the schema it
\*       had, the statements of the script, the statement reached, the
\*       statements attempted so far and whether each went through; and, over
\*       the constructions of the process, how many were given a script and how
\*       many times the loop over a script has been started.
\* cog: the admin component: per invocation of the botonly command, where it
\*       stands (idle, or suspended in the send of its announcement), its
\*       channel, what it read and what it announces; and per channel the
\*       number of invocations that have completed and the number whose
\*       announcement could not be sent.
\* The bookkeeping variables opened and tickets are kept by the modmail
\* methods, recent by the bot-only methods, message by the group exchange
\* methods run as a whole, serial and handles by the interleaved runs.
VARIABLES db, last, tx, serial, opened, tickets, recent, message, handles, boot, cog

vars == <<db, last, tx, serial, opened, tickets, recent, message, handles, boot, cog>>

Callers == {"p1", "p2"}
\* who opens connection scopes: the construction and the callers
Owners == Callers \cup {"init"}
Pairs == Users \X Courses
\* boot when the connector has been constructed, and before its construction
NoScript == [given |-> FALSE, exists |-> FALSE, text |-> <<>>]
Constructed == [pc |-> "constructed", prog |-> <<>>, i |-> 0, log |-> <<>>, schema0 |-> {},
                db_file |-> TRUE, script |-> NoScript, existed |-> TRUE,
                given |-> 0, applied |-> 0]
NotConstructed == [Constructed EXCEPT !.pc = "new"]
\* the invocations of the botonly command that can be in flight together
Invocations == {"i1", "i2"}
IdleInvocation == [pc |-> "idle", channel |-> 0, is_channel_botonly |-> 0,
                   is_enabled_string |-> ""]
Loaded == [botonly |-> [t \in Invocations |-> IdleInvocation],
           done |-> [c \in Channels |-> 0],
           unsent |-> [c \in Channels |-> 0]]
IdleTx == [op |-> "none", args |-> <<>>, prog |-> <<>>, i |-> 0, conn |-> EmptyDb,
           wrote |-> FALSE]

Range(f) == {f[i] : i \in DOMAIN f}
Faults(prog) == 0..Len(prog)

NoCall == [op |-> "none", args |-> <<>>, fault |-> 0, before |-> 0,
           raised |-> FALSE, ret |-> NoValue]
Returned(op, args, fault, res, ret) ==
    [op |-> op, args |-> args, fault |-> fault, before |-> RowCount(db),
     raised |-> res.raised, ret |-> IF res.raised THEN NoValue ELSE ret]

Init ==
    /\ db = EmptyDb
    /\ last = NoCall
    /\ tx = [p \in Callers |-> IdleTx]
    /\ serial = EmptyDb
    /\ opened = {}
    /\ tickets = [m \in ModmailIds |-> "absent"]
    /\ recent = [c \in Channels |-> "none"]
    /\ message = [p \in Pairs |-> "absent"]
    /\ handles = [p \in Owners |-> {}]
    /\ boot = Constructed
    /\ cog = Loaded

\* DatabaseConnector.add_group_offer_and_requests, called with (u, c, g, R)
AddOffer(u, c, g, R) ==
    /\ RowCount(db) + 1 + Len(R) <= MaxRows \/ OffersOf(db, u, c) # {}
    /\ LET prog == add_group_offer_and_requests(u, c, g, R) IN
       \E fault \in Faults(prog) :
           LET res == DatabaseManager(db, prog, fault) IN
           /\ db' = res.db
           /\ message' = IF res.raised THEN message
                         ELSE [message EXCEPT ![<<u, c>>] = Undefined]
           /\ UNCHANGED <<tx, serial, opened, tickets, recent, handles, boot, cog>>
           /\ last' = Returned("add_group_offer_and_requests",
                               [user_id |-> u, course |-> c, offered_group |-> g,
                                requested_groups |-> Range(R), n |-> Len(R)],
                               fault, res, NoValue)

AddGroupOfferAndRequests ==
    \E u \in Users, c \in Courses, g \in Groups, R \in GroupLists :
        /\ last.op = "none"
        /\ AddOffer(u, c, g, R)

\* DatabaseConnector.update_group_exchange_message_id
UpdateGroupExchangeMessageId ==
    \E u \in Users, c \in Courses, m \in MessageIds :
        /\ last.op = "none"
        /\ LET prog == update_group_exchange_message_id(u, c, m) IN
           \E fault \in Faults(prog) :
               LET res == DatabaseManager(db, prog, fault) IN
               /\ db' = res.db
               /\ message' = IF res.raised \/ message[<<u, c>>] = "absent" THEN message
                             ELSE [message EXCEPT ![<<u, c>>] = m]
               /\ UNCHANGED <<tx, serial, opened, tickets, recent, handles, boot, cog>>
               /\ last' = Returned("update_group_exchange_message_id",
                                   [user_id |-> u, course |-> c, message_id |-> m],
                                   fault, res, NoValue)

\* DatabaseConnector.remove_group_exchange_offer
RemoveGroupExchangeOffer ==
    \E u \in Users, c \in Courses :
        /\ last.op = "none"
        /\ LET prog == remove_group_exchange_offer(u, c) IN
           \E fault \in Faults(prog) :
               LET res == DatabaseManager(db, prog, fault) IN
               /\ db' = res.db
               /\ message' = IF res.raised THEN message
                             ELSE [message EXCEPT ![<<u, c>>] = "absent"]
               /\ UNCHANGED <<tx, serial, opened, tickets, recent, handles, boot, cog>>
               /\ last' = Returned("remove_group_exchange_offer",
                                   [user_id |-> u, course |-> c], fault, res, NoValue)

\* DatabaseConnector.get_candidates_for_group_exchange
GetCandidatesForGroupExchange ==
    \E u \in Users, c \in Courses, g \in Groups, R \in GroupLists, one_shot \in BOOLEAN :
        /\ last.op = "none"
        /\ LET prog == get_candidates_for_group_exchange(u, c, g, R, one_shot) IN
           \E fault \in Faults(prog) :
               LET res == DatabaseManager(db, prog, fault) IN
               /\ db' = res.db
               /\ UNCHANGED <<tx, serial, opened, tickets, recent, message, handles, boot, cog>>
               /\ last' = Returned("get_candidates_for_group_exchange",
                                   [author_id |-> u, course |-> c, offered_group |-> g,
                                    requested_groups |-> Range(R), n |-> Len(R),
                                    one_shot |-> one_shot,
                                    placeholders |-> prog[1].n,
                                    parameters |-> Len(prog[1].p)],
                                   fault, res, FetchAllOrNone(res.rows))

\* DatabaseConnector.get_group_exchange_message
GetGroupExchangeMessage ==
    \E u \in Users, c \in Courses :
        /\ last.op = "none"
        /\ LET prog == get_group_exchange_message(u, c) IN
           \E fault \in Faults(prog) :
               LET res == DatabaseManager(db, prog, fault) IN
               /\ db' = res.db
               /\ UNCHANGED <<tx, serial, opened, tickets, recent, message, handles, boot, cog>>
               /\ last' = Returned("get_group_exchange_message",
                                   [user_id |-> u, course |-> c],
                                   fault, res, FetchOneOrNone(res.rows))

\* the caller takes the outcome of its call and goes on to its next call
Resume ==
    /\ last.op # "none"
    /\ last' = NoCall
    /\ UNCHANGED <<db, tx, serial, opened, tickets, recent, message, handles, boot, cog>>

Next ==
    \/ AddGroupOfferAndRequests
    \/ RemoveGroupExchangeOffer
    \/ GetCandidatesForGroupExchange
    \/ GetGroupExchangeMessage
    \/ Resume

Spec == Init /\ [][Next]_vars

\* the two-phase write of the announcement's message id: the group exchange
\* methods with update_group_exchange_message_id, without the candidate search,
\* for offers with one requested group
AddAnnouncedOffer ==
    \E u \in Users, c \in Courses, g \in Groups, R \in {L \in GroupLists : Len(L) = 1} :
        /\ last.op = "none"
        /\ AddOffer(u, c, g, R)

NextMessage ==
    \/ AddAnnouncedOffer
    \/ UpdateGroupExchangeMessageId
    \/ GetGroupExchangeMessage
    \/ RemoveGroupExchangeOffer
    \/ Resume

SpecMessage == Init /\ [][NextMessage]_vars

(* ------------------- calls that interleave by statement --------------- *)
\* the courses of the interleaved runs
ConcurrentCourses == {"X"}

IsWrite(s) ==
    s.q \in {"INSERT_GROUP_OFFER", "INSERT_GROUP_REQUEST", "UPDATE_GROUP_MESSAGE_ID",
             "REMOVE_GROUP_EXCHANGE_OFFER", "REMOVE_GROUP_EXCHANGE_REQUESTS"}

\* the store serializes writers: a connection that has written holds the write
\* lock until it commits or is closed
Locked(p) == \E q \in Callers \ {p} : tx[q].wrote

\* caller p, inside the scope in state t (or entering it with the first
\* statement), runs its next statement; fault says that the storage engine fails
\* at it.  A connection reads the persisted store
\* and what it has written itself; a write while another connection holds the
\* write lock raises; an error not caught ends the scope without a commit.
Advance(p, t, fault) ==
    LET s == t.prog[t.i]
        view == IF t.wrote THEN t.conn ELSE db
        r == IF fault THEN Raised(view)
             ELSE IF s.q = "commit" THEN Done(view, {})
             ELSE IF IsWrite(s) /\ Locked(p) THEN Raised(view)
             ELSE execute(view, s)
        wrote == IF ~r.ok THEN t.wrote
                 ELSE IF s.q = "commit" THEN FALSE
                 ELSE t.wrote \/ IsWrite(s)
        raised == ~r.ok /\ ~s.try
        ends == raised \/ t.i = Len(t.prog)
        inside == IF handles[p] = {} THEN Acquire(handles, p) ELSE handles
    IN
    /\ db' = IF r.ok /\ Autocommit(s) THEN r.db ELSE db
    /\ IF raised
       THEN tx' = [tx EXCEPT ![p] = IdleTx] /\ UNCHANGED serial
       ELSE IF t.i = Len(t.prog)
       THEN /\ tx' = [tx EXCEPT ![p] = IdleTx]
            /\ serial' = DatabaseManager(serial, t.prog, 0).db
       ELSE /\ tx' = [tx EXCEPT ![p] = [t EXCEPT !.i = t.i + 1,
                                                 !.conn = IF wrote THEN r.db ELSE EmptyDb,
                                                 !.wrote = wrote]]
            /\ UNCHANGED serial
    /\ handles' = IF ends THEN Release(inside, p, raised) ELSE inside
    /\ last' = IF ends
               THEN [op |-> t.op, args |-> t.args, fault |-> IF fault THEN t.i ELSE 0,
                     before |-> RowCount(db), raised |-> raised, ret |-> NoValue]
               ELSE last
    /\ UNCHANGED <<opened, tickets, recent, message, boot, cog>>

\* the state of a scope about to run the first statement of prog
Entering(op, args, prog) == [IdleTx EXCEPT !.op = op, !.args = args, !.prog = prog, !.i = 1]

\* a caller enters add_group_offer_and_requests and runs its first statement
BeginAdd ==
    \E p \in Callers, u \in Users, c \in ConcurrentCourses, g \in Groups, R \in GroupLists,
       fault \in BOOLEAN :
        /\ last.op = "none" /\ tx[p] = IdleTx
        /\ RowCount(db) + 1 + Len(R) <= MaxRows \/ OffersOf(db, u, c) # {}
        /\ Advance(p, Entering("add_group_offer_and_requests",
                               [user_id |-> u, course |-> c, offered_group |-> g,
                                requested_groups |-> Range(R), n |-> Len(R)],
                               add_group_offer_and_requests(u, c, g, R)), fault)

\* a caller enters remove_group_exchange_offer and runs its first statement
BeginRemove ==
    \E p \in Callers, u \in Users, c \in ConcurrentCourses, fault \in BOOLEAN :
        /\ last.op = "none" /\ tx[p] = IdleTx
        /\ Advance(p, Entering("remove_group_exchange_offer", [user_id |-> u, course |-> c],
                               remove_group_exchange_offer(u, c)), fault)

\* a caller inside a call runs the call's next statement
NextStatement ==
    \E p \in Callers, fault \in BOOLEAN :
        /\ last.op = "none" /\ tx[p] # IdleTx
        /\ Advance(p, tx[p], fault)

\* a caller that is in no call reads: the three read methods are one statement each
ReadCandidates ==
    \E u \in Users, c \in ConcurrentCourses, g \in Groups, R \in GroupLists :
        /\ last.op = "none" /\ \E p \in Callers : tx[p] = IdleTx
        /\ LET prog == get_candidates_for_group_exchange(u, c, g, R, FALSE)
               res == DatabaseManager(db, prog, 0)
           IN last' = Returned("get_candidates_for_group_exchange",
                               [author_id |-> u, course |-> c, offered_group |-> g,
                                requested_groups |-> Range(R), n |-> Len(R),
                                one_shot |-> FALSE,
                                placeholders |-> prog[1].n,
                                parameters |-> Len(prog[1].p)],
                               0, res, FetchAllOrNone(res.rows))
        /\ UNCHANGED <<db, tx, serial, opened, tickets, recent, message, handles, boot, cog>>

ReadMessage ==
    \E u \in Users, c \in ConcurrentCourses :
        /\ last.op = "none" /\ \E p \in Callers : tx[p] = IdleTx
        /\ LET res == DatabaseManager(db, get_group_exchange_message(u, c), 0)
           IN last' = Returned("get_group_exchange_message", [user_id |-> u, course |-> c],
                               0, res, FetchOneOrNone(res.rows))
        /\ UNCHANGED <<db, tx, serial, opened, tickets, recent, message, handles, boot, cog>>

ReadForUser ==
    \E u \in Users :
        /\ last.op = "none" /\ \E p \in Callers : tx[p] = IdleTx
        /\ LET res == DatabaseManager(db, get_group_exchange_for_user(u), 0)
           IN last' = Returned("get_group_exchange_for_user", [user_id |-> u],
                               0, res, FetchAllOrNone(res.rows))
        /\ UNCHANGED <<db, tx, serial, opened, tickets, recent, message, handles, boot, cog>>

NextConcurrent ==
    \/ BeginAdd
    \/ BeginRemove
    \/ NextStatement
    \/ ReadCandidates
    \/ ReadMessage
    \/ ReadForUser
    \/ Resume

SpecConcurrent == Init /\ [][NextConcurrent]_vars

(* ----------------------------- construction --------------------------- *)
\* the init_script argument: None, or the name of a file, which may not exist
InitScripts ==
    {NoScript, [given |-> TRUE, exists |-> FALSE, text |-> <<>>]}
    \cup {[given |-> TRUE, exists |-> TRUE, text |-> text] : text \in Scripts}

\* the storage file does not exist, or it exists and may hold tables of an
\* earlier run
InitBoot ==
    /\ \/ db = AbsentDb
       \/ \E missing \in SUBSET {"GroupOffer", "GroupRequest"} :
            db = [EmptyDb EXCEPT !.Schema = Tables \ missing]
    /\ last = NoCall
    /\ tx = [p \in Callers |-> IdleTx]
    /\ serial = EmptyDb
    /\ opened = {}
    /\ tickets = [m \in ModmailIds |-> "absent"]
    /\ recent = [c \in Channels |-> "none"]
    /\ message = [p \in Pairs |-> "absent"]
    /\ handles = [p \in Owners |-> {}]
    /\ boot = NotConstructed
    /\ cog = Loaded

\* entering a scope connects to the storage file, which creates the file when
\* it does not exist
Connect(d) == [d EXCEPT !.File = TRUE]

\* variant with one slip: the script is run only when the storage file is new
Construct_if_absent ==
    \E has_db_file \in BOOLEAN, init_script \in InitScripts :
        /\ boot.pc = "new"
        /\ IF ~has_db_file
           THEN /\ boot' = [boot EXCEPT !.pc = "raised", !.db_file = FALSE,
                                        !.script = init_script, !.existed = db.File]
                /\ UNCHANGED <<db, handles>>
           ELSE IF init_script.given /\ ~init_script.exists
           THEN /\ boot' = [boot EXCEPT !.pc = "raised", !.db_file = TRUE,
                                        !.script = init_script, !.existed = db.File]
                /\ db' = Connect(db)
                /\ handles' = Release(Acquire(handles, "init"), "init", TRUE)
           ELSE /\ boot' = [pc |-> "scope",
                            prog |-> IF init_script.given /\ ~db.File
                                     THEN bootstrap(parse_sql_file(init_script.text))
                                     ELSE <<>>,
                            i |-> 1, log |-> <<>>, schema0 |-> db.Schema,
                            db_file |-> TRUE, script |-> init_script, existed |-> db.File,
                            given |-> boot.given + (IF init_script.given THEN 1 ELSE 0),
                            applied |-> boot.applied]
                /\ db' = Connect(db)
                /\ handles' = Acquire(handles, "init")
        /\ UNCHANGED <<last, tx, serial, opened, tickets, recent, message, cog>>

\* variant with one slip: no test of db_file before the scope
Construct_unchecked ==
    \E has_db_file \in BOOLEAN, init_script \in InitScripts :
        /\ boot.pc = "new"
        /\ IF init_script.given /\ ~init_script.exists
           THEN /\ boot' = [boot EXCEPT !.pc = "raised", !.db_file = has_db_file,
                                        !.script = init_script, !.existed = db.File]
                /\ db' = Connect(db)
                /\ handles' = Release(Acquire(handles, "init"), "init", TRUE)
           ELSE /\ boot' = [pc |-> "scope",
                            prog |-> IF init_script.given
                                     THEN bootstrap(parse_sql_file(init_script.text))
                                     ELSE <<>>,
                            i |-> 1, log |-> <<>>, schema0 |-> db.Schema,
                            db_file |-> has_db_file, script |-> init_script,
                            existed |-> db.File,
                            given |-> boot.given + (IF init_script.given THEN 1 ELSE 0),
                            applied |-> boot.applied]
                /\ db' = Connect(db)
                /\ handles' = Acquire(handles, "init")
        /\ UNCHANGED <<last, tx, serial, opened, tickets, recent, message, cog>>

\* DatabaseConnector.__init__ up to its loop (database_connector.py:27-33): no
\* db_file raises before any scope; else the scope is entered; inside it, reading
\* a script file that does not exist raises, which ends the scope
Construct ==
    \E has_db_file \in BOOLEAN, init_script \in InitScripts :
        /\ boot.pc = "new"
        /\ IF ~has_db_file
           THEN /\ boot' = [boot EXCEPT !.pc = "raised", !.db_file = FALSE,
                                        !.script = init_script, !.existed = db.File]
                /\ UNCHANGED <<db, handles>>
           ELSE IF init_script.given /\ ~init_script.exists
           THEN /\ boot' = [boot EXCEPT !.pc = "raised", !.db_file = TRUE,
                                        !.script = init_script, !.existed = db.File]
                /\ db' = Connect(db)
                /\ handles' = Release(Acquire(handles, "init"), "init", TRUE)
           ELSE /\ boot' = [pc |-> "scope",
                            prog |-> IF init_script.given
                                     THEN bootstrap(parse_sql_file(init_script.text))
                                     ELSE <<>>,
                            i |-> 1, log |-> <<>>, schema0 |-> db.Schema,
                            db_file |-> TRUE, script |-> init_script, existed |-> db.File,
                            given |-> boot.given + (IF init_script.given THEN 1 ELSE 0),
                            applied |-> boot.applied]
                /\ db' = Connect(db)
                /\ handles' = Acquire(handles, "init")
        /\ UNCHANGED <<last, tx, serial, opened, tickets, recent, message, cog>>

\* one turn of the loop (database_connector.py:34-38): execute the next query;
\* fault says that the storage engine fails at it
BootStatement ==
    \E fault \in BOOLEAN :
        /\ boot.pc = "scope" /\ boot.i <= Len(boot.prog)
        /\ LET s == boot.prog[boot.i]
               r == IF fault THEN Raised(db) ELSE execute(db, s)
               log == Append(boot.log, [i |-> boot.i, ok |-> r.ok])
           IN
           /\ db' = r.db
           /\ IF ~r.ok /\ ~s.try
              THEN /\ boot' = [boot EXCEPT !.pc = "raised", !.log = log,
                                           !.applied = IF boot.i = 1 THEN @ + 1 ELSE @]
                   /\ handles' = Release(handles, "init", TRUE)
              ELSE /\ boot' = [boot EXCEPT !.i = @ + 1, !.log = log,
                                           !.applied = IF boot.i = 1 THEN @ + 1 ELSE @]
                   /\ UNCHANGED handles
        /\ UNCHANGED <<last, tx, serial, opened, tickets, recent, message, cog>>

\* the end of the scope and of __init__
BootExit ==
    /\ boot.pc = "scope" /\ boot.i > Len(boot.prog)
    /\ boot' = [boot EXCEPT !.pc = "done"]
    /\ handles' = Release(handles, "init", FALSE)
    /\ UNCHANGED <<db, last, tx, serial, opened, tickets, recent, message, cog>>

\* a caller of the constructed connector enters the scope of a method, `with
\* DatabaseManager(...) as db_manager:`, a step before its first statement
Enter(p, op, args, prog) ==
    /\ last.op = "none" /\ tx[p] = IdleTx /\ boot = Constructed
    /\ tx' = [tx EXCEPT ![p] = Entering(op, args, prog)]
    /\ handles' = Acquire(handles, p)
    /\ UNCHANGED <<db, last, serial, opened, tickets, recent, message, boot, cog>>

\* add_group_offer_and_requests with one requested group
EnterAdd ==
    \E p \in Callers, u \in Users, c \in ConcurrentCourses, g \in Groups,
       R \in {L \in GroupLists : Len(L) = 1} :
        /\ RowCount(db) + 1 + Len(R) <= MaxRows \/ OffersOf(db, u, c) # {}
        /\ Enter(p, "add_group_offer_and_requests",
                 [user_id |-> u, course |-> c, offered_group |-> g,
                  requested_groups |-> Range(R), n |-> Len(R)],
                 add_group_offer_and_requests(u, c, g, R))

EnterRemove ==
    \E p \in Callers, u \in Users, c \in ConcurrentCourses :
        /\ tx[p] = IdleTx
        /\ Enter(p, "remove_group_exchange_offer", [user_id |-> u, course |-> c],
                 remove_group_exchange_offer(u, c))

\* the connector is handed to its callers
Ready ==
    /\ boot.pc = "done"
    /\ boot' = Constructed
    /\ UNCHANGED <<db, last, tx, serial, opened, tickets, recent, message, handles, cog>>

\* construction, then calls that interleave statement by statement
NextBoot ==
    \/ Construct
    \/ BootStatement
    \/ BootExit
    \/ Ready
    \/ EnterAdd
    \/ EnterRemove
    \/ NextStatement
    \/ Resume

SpecBoot == InitBoot /\ [][NextBoot]_vars

\* `bot cog reload` (admin.py:217-247) loads the admin extension again in the
\* running process: setup (admin.py:575-581) constructs a new AdminCog, whose
\* __init__ (admin.py:22-29) constructs a new DatabaseConnector
ReloadExtension ==
    /\ boot.pc = "done" /\ boot.given < MaxLoads
    /\ boot' = [NotConstructed EXCEPT !.given = boot.given, !.applied = boot.applied]
    /\ UNCHANGED <<db, last, tx, serial, opened, tickets, recent, message, handles, cog>>

\* the constructions of one process
NextReload ==
    \/ Construct
    \/ BootStatement
    \/ BootExit
    \/ ReloadExtension

SpecReload == InitBoot /\ [][NextReload]_vars

(* ------------------------------- modmail ------------------------------- *)
\* DatabaseConnector.add_modmail, called with (m, author, timestamp)
AddTicket(m, author, timestamp) ==
    LET prog == add_modmail(m, author, timestamp) IN
    \E fault \in Faults(prog) :
        LET res == DatabaseManager(db, prog, fault) IN
        /\ db' = res.db
        /\ last' = Returned("add_modmail",
                            [msg_id |-> m, author |-> author, timestamp |-> timestamp],
                            fault, res, NoValue)
        /\ opened' = IF res.raised THEN opened ELSE opened \cup {m}
        /\ tickets' = IF res.raised \/ tickets[m] # "absent" THEN tickets
                      ELSE [tickets EXCEPT ![m] = "Open"]
        /\ UNCHANGED <<tx, serial, recent, message, handles, boot, cog>>

AddModmail ==
    \E m \in ModmailIds, author \in Authors, timestamp \in Timestamps :
        /\ last.op = "none"
        /\ AddTicket(m, author, timestamp)

\* DatabaseConnector.get_modmail_status
GetModmailStatus ==
    \E m \in ModmailIds :
        /\ last.op = "none"
        /\ LET prog == get_modmail_status(m) IN
           \E fault \in Faults(prog) :
               LET res == DatabaseManager(db, prog, fault) IN
               /\ db' = res.db
               /\ last' = Returned("get_modmail_status", [msg_id |-> m],
                                   fault, res, FetchStatusOrNone(res.rows))
               /\ UNCHANGED <<tx, serial, opened, tickets, recent, message, handles, boot, cog>>

\* DatabaseConnector.change_modmail_status, called with (m, status); again says
\* that it is the caller's second call in a row with these arguments
ChangeStatus(m, status, again) ==
    LET prog == change_modmail_status(m, status) IN
    \E fault \in Faults(prog) :
        LET res == DatabaseManager(db, prog, fault) IN
        /\ db' = res.db
        /\ last' = Returned("change_modmail_status",
                            [msg_id |-> m, status |-> status, again |-> again],
                            fault, res, NoValue)
        /\ opened' = opened \ {m}
        /\ tickets' = IF res.raised \/ tickets[m] = "absent" THEN tickets
                      ELSE [tickets EXCEPT ![m] = status]
        /\ UNCHANGED <<tx, serial, recent, message, handles, boot, cog>>

ChangeModmailStatus ==
    \E m \in ModmailIds, status \in Statuses :
        /\ last.op = "none"
        /\ ChangeStatus(m, status, FALSE)

\* the caller, whose change_modmail_status(m, status) has just returned, calls it
\* once more with the same arguments
ChangeModmailStatusAgain ==
    /\ last.op = "change_modmail_status" /\ ~last.raised /\ ~last.args.again
    /\ ChangeStatus(last.args.msg_id, last.args.status, TRUE)

\* DatabaseConnector.get_all_modmail_with_status
GetAllModmailWithStatus ==
    \E status \in Statuses :
        /\ last.op = "none"
        /\ LET prog == get_all_modmail_with_status(status) IN
           \E fault \in Faults(prog) :
               LET res == DatabaseManager(db, prog, fault) IN
               /\ db' = res.db
               /\ last' = Returned("get_all_modmail_with_status", [status |-> status],
                                   fault, res, FetchAllOrNone(res.rows))
               /\ UNCHANGED <<tx, serial, opened, tickets, recent, message, handles, boot, cog>>

NextModmail ==
    \/ AddModmail
    \/ GetModmailStatus
    \/ ChangeModmailStatus
    \/ ChangeModmailStatusAgain
    \/ GetAllModmailWithStatus
    \/ Resume

SpecModmail == Init /\ [][NextModmail]_vars

(* ------------------------ roles and bot-only flags --------------------- *)
\* DatabaseConnector.add_module_role
AddModuleRole ==
    \E r \in Roles :
        /\ last.op = "none"
        /\ LET prog == add_module_role(r) IN
           \E fault \in Faults(prog) :
               LET res == DatabaseManager(db, prog, fault) IN
               /\ db' = res.db
               /\ last' = Returned("add_module_role", [role_id |-> r], fault, res, NoValue)
               /\ UNCHANGED <<tx, serial, opened, tickets, recent, message, handles, boot, cog>>

\* DatabaseConnector.remove_module_role
RemoveModuleRole ==
    \E r \in Roles :
        /\ last.op = "none"
        /\ LET prog == remove_module_role(r) IN
           \E fault \in Faults(prog) :
               LET res == DatabaseManager(db, prog, fault) IN
               /\ db' = res.db
               /\ last' = Returned("remove_module_role", [role_id |-> r], fault, res, NoValue)
               /\ UNCHANGED <<tx, serial, opened, tickets, recent, message, handles, boot, cog>>

\* DatabaseConnector.is_botonly
IsBotonly ==
    \E c \in Channels :
        /\ last.op = "none"
        /\ LET prog == is_botonly(c) IN
           \E fault \in Faults(prog) :
               LET res == DatabaseManager(db, prog, fault) IN
               /\ db' = res.db
               /\ last' = Returned("is_botonly", [channel |-> c], fault, res,
                                   FetchFlagOrZero(res.rows))
               /\ UNCHANGED <<tx, serial, opened, tickets, recent, message, handles, boot, cog>>

\* DatabaseConnector.activate_botonly
ActivateBotonly ==
    \E c \in Channels :
        /\ last.op = "none"
        /\ LET prog == activate_botonly(c) IN
           \E fault \in Faults(prog) :
               LET res == DatabaseManager(db, prog, fault) IN
               /\ db' = res.db
               /\ last' = Returned("activate_botonly", [channel |-> c], fault, res, NoValue)
               /\ recent' = IF res.raised THEN recent ELSE [recent EXCEPT ![c] = "activate"]
               /\ UNCHANGED <<tx, serial, opened, tickets, message, handles, boot, cog>>

\* DatabaseConnector.deactivate_botonly
DeactivateBotonly ==
    \E c \in Channels :
        /\ last.op = "none"
        /\ LET prog == deactivate_botonly(c) IN
           \E fault \in Faults(prog) :
               LET res == DatabaseManager(db, prog, fault) IN
               /\ db' = res.db
               /\ last' = Returned("deactivate_botonly", [channel |-> c], fault, res, NoValue)
               /\ recent' = IF res.raised THEN recent ELSE [recent EXCEPT ![c] = "deactivate"]
               /\ UNCHANGED <<tx, serial, opened, tickets, message, handles, boot, cog>>

NextFlags ==
    \/ AddModuleRole
    \/ RemoveModuleRole
    \/ IsBotonly
    \/ ActivateBotonly
    \/ DeactivateBotonly
    \/ Resume

SpecFlags == Init /\ [][NextFlags]_vars

(* --------------------------- the admin component ---------------------- *)
\* `if is_channel_botonly:` / `if self._db_connector.is_botonly(...):` on the
\* value that is_botonly returned
Truthy(ret) == ret.rows # {0}

\* the invocations of the botonly command for channel c that have started and
\* not ended
Started(cg, c) ==
    Cardinality({t \in Invocations : cg.botonly[t].pc # "idle" /\ cg.botonly[t].channel = c})

HandlerReturned(op, args, fault, raised, effects) ==
    [op |-> op, args |-> args, fault |-> fault, before |-> RowCount(db),
     raised |-> raised, ret |-> [none |-> TRUE, rows |-> effects]]

\* variant with one slip: the handler is suspended between its read of the flag
\* and its write (as with an awaited call between the two)
Botonly_suspended ==
    \E t \in Invocations, c \in Channels :
        /\ last.op = "none"
        /\ \/ /\ cog.botonly[t].pc = "idle"
              /\ cog.done[c] + cog.unsent[c] + Started(cog, c) < MaxInvocations
              /\ \E fault \in Faults(is_botonly(c)) :
                    LET read == DatabaseManager(db, is_botonly(c), fault) IN
                    IF read.raised
                    THEN /\ last' = HandlerReturned("botonly", [channel |-> c], fault, TRUE, {})
                         /\ UNCHANGED <<db, cog>>
                    ELSE /\ cog' = [cog EXCEPT !.botonly[t] =
                                    [IdleInvocation EXCEPT !.pc = "read", !.channel = c,
                                        !.is_channel_botonly =
                                            CHOOSE v \in FetchFlagOrZero(read.rows).rows : TRUE]]
                         /\ UNCHANGED <<db, last>>
           \/ /\ cog.botonly[t].pc = "read" /\ cog.botonly[t].channel = c
              /\ LET is_channel_botonly == [none |-> FALSE,
                                            rows |-> {cog.botonly[t].is_channel_botonly}]
                     prog == IF Truthy(is_channel_botonly)
                             THEN deactivate_botonly(c) ELSE activate_botonly(c)
                 IN
                 \E fault \in Faults(prog) :
                    LET write == DatabaseManager(db, prog, fault) IN
                    /\ db' = write.db
                    /\ IF write.raised
                       THEN /\ last' = HandlerReturned("botonly", [channel |-> c],
                                                       fault, TRUE, {})
                            /\ cog' = [cog EXCEPT !.botonly[t] = IdleInvocation]
                       ELSE /\ cog' = [cog EXCEPT !.botonly[t].pc = "send",
                                          !.botonly[t].is_enabled_string =
                                            IF ~Truthy(is_channel_botonly)
                                            THEN "aktiviert" ELSE "deaktiviert"]
                            /\ UNCHANGED last
        /\ UNCHANGED <<tx, serial, opened, tickets, recent, message, handles, boot>>

\* AdminCog.botonly up to its await (admin.py:368-378): the handler reads the
\* flag of the channel, writes the other state and builds its announcement,
\* without a suspension point in between; an error of the store ends the
\* invocation
Botonly ==
    \E t \in Invocations, c \in Channels :
        /\ last.op = "none" /\ cog.botonly[t].pc = "idle"
        /\ cog.done[c] + cog.unsent[c] + Started(cog, c) < MaxInvocations
        /\ \E fault \in Faults(is_botonly(c)) :
            LET read == DatabaseManager(db, is_botonly(c), fault) IN
            IF read.raised
            THEN /\ last' = HandlerReturned("botonly", [channel |-> c], fault, TRUE, {})
                 /\ UNCHANGED <<db, cog>>
            ELSE LET is_channel_botonly == FetchFlagOrZero(read.rows)
                     prog == IF Truthy(is_channel_botonly)
                             THEN deactivate_botonly(c) ELSE activate_botonly(c)
                 IN
                 \E fault2 \in Faults(prog) :
                    LET write == DatabaseManager(db, prog, fault2) IN
                    /\ db' = write.db
                    /\ IF write.raised
                       THEN /\ last' = HandlerReturned("botonly", [channel |-> c],
                                                       fault2, TRUE, {})
                            /\ UNCHANGED cog
                       ELSE /\ cog' = [cog EXCEPT !.botonly[t] =
                                        [pc |-> "send", channel |-> c,
                                         is_channel_botonly |->
                                            CHOOSE v \in is_channel_botonly.rows : TRUE,
                                         is_enabled_string |->
                                            IF ~Truthy(is_channel_botonly)
                                            THEN "aktiviert" ELSE "deaktiviert"]]
                            /\ UNCHANGED last
        /\ UNCHANGED <<tx, serial, opened, tickets, recent, message, handles, boot>>

\* `await target_channel.send(embed=embed)` (admin.py:379) ends: the announcement
\* is sent and the invocation completes, or the send fails and the invocation
\* ends with that error
Send ==
    \E t \in Invocations, sent \in BOOLEAN :
        /\ last.op = "none" /\ cog.botonly[t].pc = "send"
        /\ LET c == cog.botonly[t].channel IN
           /\ cog' = [cog EXCEPT !.botonly[t] = IdleInvocation,
                                 !.done[c] = IF sent THEN @ + 1 ELSE @,
                                 !.unsent[c] = IF sent THEN @ ELSE @ + 1]
           /\ last' = HandlerReturned("botonly", [channel |-> c], 0, ~sent,
                                      IF sent THEN {cog.botonly[t].is_enabled_string} ELSE {})
        /\ UNCHANGED <<db, tx, serial, opened, tickets, recent, message, handles, boot>>

\* variant with one slip: no test of the author
OnMessage_any_author ==
    \E c \in Channels, from_bot \in BOOLEAN :
        /\ last.op = "none"
        /\ \E fault \in Faults(is_botonly(c)) :
                LET res == DatabaseManager(db, is_botonly(c), fault) IN
                last' = HandlerReturned("on_message", [channel |-> c, from_bot |-> from_bot],
                            fault, res.raised,
                            IF ~res.raised /\ Truthy(FetchFlagOrZero(res.rows))
                            THEN {"delete"} ELSE {})
        /\ UNCHANGED <<db, tx, serial, opened, tickets, recent, message, handles, boot, cog>>

\* AdminCog.on_message (admin.py:411-414) for a message in channel c, written by
\* the bot itself or by someone else: the effect is the deletion of the message
\* or nothing
OnMessage ==
    \E c \in Channels, from_bot \in BOOLEAN :
        /\ last.op = "none"
        /\ IF from_bot
           THEN last' = HandlerReturned("on_message", [channel |-> c, from_bot |-> TRUE],
                                       0, FALSE, {})
           ELSE \E fault \in Faults(is_botonly(c)) :
                LET res == DatabaseManager(db, is_botonly(c), fault) IN
                last' = HandlerReturned("on_message", [channel |-> c, from_bot |-> FALSE],
                            fault, res.raised,
                            IF ~res.raised /\ Truthy(FetchFlagOrZero(res.rows))
                            THEN {"delete"} ELSE {})
        /\ UNCHANGED <<db, tx, serial, opened, tickets, recent, message, handles, boot, cog>>

\* the handlers of the admin component, interleaved at their suspension points
NextCommand ==
    \/ Botonly
    \/ Send
    \/ OnMessage
    \/ Resume

SpecCommand == Init /\ [][NextCommand]_vars

(* ------------------- tickets among the other operations ---------------- *)
\* add_modmail for the submissions of one author at one time
AddModmailOfAuthor ==
    \E m \in ModmailIds :
        /\ last.op = "none"
        /\ AddTicket(m, "ann#0001", "t1")

\* the modmail methods together with methods of another table
NextStore ==
    \/ AddModmailOfAuthor
    \/ GetModmailStatus
    \/ ChangeModmailStatus
    \/ GetAllModmailWithStatus
    \/ ActivateBotonly
    \/ DeactivateBotonly
    \/ Resume

SpecStore == Init /\ [][NextStore]_vars

(* ------------------------------ the claims ----------------------------- *)
IsAdd(l) == l.op = "add_group_offer_and_requests"
IsRemove(l) == l.op = "remove_group_exchange_offer"
IsCandidates(l) == l.op = "get_candidates_for_group_exchange"
SameRows(d, e, u, c) == OffersOf(d, u, c) = OffersOf(e, u, c) /\ RequestsOf(d, u, c) = RequestsOf(e, u, c)

\* C1: add_group_offer_and_requests is all-or-nothing.  A call that does not reach
\* its commit (an insert raised, the storage engine failed or the process stopped)
\* leaves the persisted store as it was; a call that returns has added exactly
\* the offer row and one request row per requested group of (u, course), together.
C1_AddAllOrNothing ==
    [][IsAdd(last') =>
        LET a == last'.args IN
        IF last'.raised
        THEN db' = db
        ELSE /\ OffersOf(db, a.user_id, a.course) = {}
             /\ RequestsOf(db, a.user_id, a.course) = {}
             /\ db'.GroupOffer = db.GroupOffer
                    \cup {OfferRow(a.user_id, a.course, a.offered_group, Undefined)}
             /\ db'.GroupRequest = db.GroupRequest
                    \cup {RequestRow(a.user_id, a.course, g) : g \in a.requested_groups}
             /\ Cardinality(RequestsOf(db', a.user_id, a.course)) = a.n]_vars

\* C1 witness: a call failed at a request insert, after its offer insert (and a
\* request insert before it) had run, and (u, course) has no row
C1_Witness ==
    /\ IsAdd(last) /\ last.raised /\ last.fault = 3 /\ last.args.n = 2
    /\ OffersOf(db, last.args.user_id, last.args.course) = {}
    /\ RequestsOf(db, last.args.user_id, last.args.course) = {}

\* the users that offer a requested group in the course and request the offered group
Partners(d, author, course, offered, requested) ==
    {v \in Users \ {author} :
        /\ \E o \in d.GroupOffer : o.UserId = v /\ o.Course = course /\ o.GroupNr \in requested
        /\ \E r \in d.GroupRequest : r.UserId = v /\ r.Course = course /\ r.GroupNr = offered}

\* C2: soundness of matching.  Every user returned by
\* get_candidates_for_group_exchange is another user than the author, offers a
\* requested group in the course and requests the offered group in the course.
C2_MatchingSound ==
    (IsCandidates(last) /\ ~last.raised) =>
        \A row \in last.ret.rows :
            LET a == last.args IN
            /\ row[1] # a.author_id
            /\ \E o \in db.GroupOffer :
                    o.UserId = row[1] /\ o.Course = a.course /\ o.GroupNr \in a.requested_groups
            /\ \E r \in db.GroupRequest :
                    r.UserId = row[1] /\ r.Course = a.course /\ r.GroupNr = a.offered_group

\* C2 witness: a candidate was returned
C2_Witness ==
    IsCandidates(last) /\ ~last.raised /\ last.ret.rows # {}

\* C3: completeness of matching.  Unless the storage engine fails, the call returns
\* every partner, None exactly when there is none, and never an empty collection.
C3_MatchingComplete ==
    (IsCandidates(last) /\ last.fault = 0) =>
        LET a == last.args
            partners == Partners(db, a.author_id, a.course, a.offered_group, a.requested_groups)
        IN
        /\ ~last.raised
        /\ {row[1] : row \in last.ret.rows} = partners
        /\ last.ret.none <=> partners = {}

\* C4: with no requested group the call returns None, whatever is stored, and
\* does not raise.
C4_EmptyRequestMatchesNothing ==
    (IsCandidates(last) /\ last.fault = 0 /\ last.args.n = 0) =>
        ~last.raised /\ last.ret.none /\ last.ret.rows = {}

\* C4 witness: the call with no requested group, while another user of the course
\* has an offer and requests the offered group
C4_Witness ==
    /\ IsCandidates(last) /\ last.fault = 0 /\ last.args.n = 0
    /\ \E o \in db.GroupOffer, r \in db.GroupRequest :
        /\ o.UserId # last.args.author_id /\ o.Course = last.args.course
        /\ r.UserId = o.UserId /\ r.Course = o.Course /\ r.GroupNr = last.args.offered_group

\* C5: a remove_group_exchange_offer(u, course) that returns leaves no offer row
\* and no request row of (u, course), get_group_exchange_message(u, course) then
\* returns None, and the rows of every other (user, course) are as before.
C5_RemoveRemovesAll ==
    [][(IsRemove(last') /\ ~last'.raised) =>
        LET u == last'.args.user_id
            c == last'.args.course
        IN
        /\ OffersOf(db', u, c) = {}
        /\ RequestsOf(db', u, c) = {}
        /\ FetchOneOrNone(DatabaseManager(db', get_group_exchange_message(u, c), 0).rows).none
        /\ \A p \in Pairs \ {<<u, c>>} : SameRows(db', db, p[1], p[2])]_vars

\* C5 witness: a removal took rows away while the user has rows in another course
\* and another user has rows in the course
C5_Witness ==
    /\ IsRemove(last) /\ ~last.raised /\ last.before >= RowCount(db) + 2
    /\ \E o \in db.GroupOffer, r \in db.GroupOffer :
        /\ o.UserId = last.args.user_id /\ o.Course # last.args.course
        /\ r.UserId # last.args.user_id /\ r.Course = last.args.course

\* C6: remove_group_exchange_offer is atomic.  A removal that does not reach its
\* commit leaves the persisted store as it was, and a removal never leaves
\* (u, course) with request rows and no offer row, or the other way round.
C6_RemoveAtomic ==
    [][IsRemove(last') =>
        /\ last'.raised => db' = db
        /\ \A p \in Pairs :
            \/ SameRows(db', db, p[1], p[2])
            \/ OffersOf(db', p[1], p[2]) = {} /\ RequestsOf(db', p[1], p[2]) = {}]_vars

\* C6 witness: the request delete failed after the offer delete had run, and the
\* offer row and its request rows are still stored
C6_Witness ==
    /\ IsRemove(last) /\ last.raised /\ last.fault = 2
    /\ OffersOf(db, last.args.user_id, last.args.course) # {}
    /\ RequestsOf(db, last.args.user_id, last.args.course) # {}

\* C8: there is at most one GroupOffer row per (user, course).  An
\* add_group_offer_and_requests for a pair that has an offer raises and leaves
\* the store as it was; for a pair that has none (as after a removal) it goes
\* through, unless the storage engine fails or a requested group is repeated.
C8_OneOfferPerUserCourse ==
    [][/\ \A p \in Pairs : Cardinality(OffersOf(db', p[1], p[2])) <= 1
       /\ IsAdd(last') =>
            LET a == last'.args IN
            IF OffersOf(db, a.user_id, a.course) # {}
            THEN last'.raised /\ db' = db
            ELSE (last'.fault = 0 /\ Cardinality(a.requested_groups) = a.n) => ~last'.raised]_vars

\* C8 witness: a second add for a pair that has an offer was rejected
C8_Witness ==
    /\ IsAdd(last) /\ last.raised /\ last.fault = 0
    /\ OffersOf(db, last.args.user_id, last.args.course) # {}
    /\ \E g \in last.args.requested_groups :
            RequestRow(last.args.user_id, last.args.course, g) \notin db.GroupRequest

\* C7: when calls interleave statement by statement, a read never sees a part of
\* an add_group_offer_and_requests or of a remove_group_exchange_offer: the
\* persisted store is at all times the store after the returned calls, each
\* applied as a whole, and what a read returns is what it returns on that store.
C7_ReadsSeeWholeCalls ==
    /\ db = serial
    /\ last.op = "get_group_exchange_for_user" =>
        last.ret = FetchAllOrNone(GET_GROUP_EXCHANGE_FOR_USER(serial, <<last.args.user_id>>).rows)
    /\ last.op = "get_group_exchange_message" =>
        last.ret = FetchOneOrNone(GET_GROUP_EXCHANGE_MESSAGE(serial,
                        <<last.args.user_id, last.args.course>>).rows)
    /\ IsCandidates(last) =>
        {row[1] : row \in last.ret.rows} =
            Partners(serial, last.args.author_id, last.args.course,
                     last.args.offered_group, last.args.requested_groups)

\* C7 witness: a caller reads the rows of a user while another caller is inside
\* an add for that user that has inserted the offer and a request, not committed
C7_Witness ==
    /\ last.op = "get_group_exchange_for_user"
    /\ \E p \in Callers :
        /\ tx[p].wrote /\ tx[p].i >= 3
        /\ \E o \in tx[p].conn.GroupOffer :
            o.UserId = last.args.user_id /\ o \notin db.GroupOffer

\* C9: add_modmail(m, ...) for an id m that has no ticket goes through (unless the
\* storage engine fails), and from then on, whatever is done to other ids,
\* get_modmail_status(m) returns Open until the status of m is changed.
C9_NewModmailIsOpen ==
    [][/\ (last'.op = "add_modmail" /\ last'.fault = 0
            /\ ModmailOf(db, last'.args.msg_id) = {}) =>
                ~last'.raised /\ last'.args.msg_id \in opened'
       /\ (last'.op = "get_modmail_status" /\ last'.fault = 0
            /\ last'.args.msg_id \in opened') =>
                ~last'.raised /\ last'.ret = [none |-> FALSE, rows |-> {"Open"}]]_vars

\* C9 witness: the status of a new ticket is read after another id got a ticket
\* and a changed status
C9_Witness ==
    /\ last.op = "get_modmail_status" /\ last.fault = 0 /\ last.args.msg_id \in opened
    /\ \E t \in db.Modmail : t.ID # last.args.msg_id /\ t.StatusID # StatusValue("Open")

\* C10: add_modmail(m, ...) for an id m that has a ticket raises, and the ticket
\* (author, timestamp and status) and the rest of the store are as before.
C10_DuplicateModmailRejected ==
    [][(last'.op = "add_modmail" /\ ModmailOf(db, last'.args.msg_id) # {}) =>
            last'.raised /\ db' = db]_vars

\* C10 witness: an add_modmail with another author and time was rejected for an
\* id whose ticket has a status other than Open
C10_Witness ==
    /\ last.op = "add_modmail" /\ last.raised /\ last.fault = 0
    /\ \E t \in ModmailOf(db, last.args.msg_id) :
        /\ t.StatusID # StatusValue("Open")
        /\ t.Author # last.args.author /\ t.Timestamp # last.args.timestamp

IsChange(l) == l.op = "change_modmail_status"
IsGetStatus(l) == l.op = "get_modmail_status"

\* C11: change_modmail_status overwrites unconditionally.  For a message id whose
\* add_modmail has returned, change_modmail_status(m, t) goes through for every
\* status t, whatever the status is (t itself, or a later one as with Closed to
\* Open), unless the storage engine fails; and get_modmail_status(m) returns the
\* status of the last change_modmail_status(m, .) that returned.
C11_ChangeOverwrites ==
    [][/\ (IsChange(last') /\ last'.fault = 0 /\ tickets[last'.args.msg_id] # "absent") =>
            ~last'.raised /\ tickets'[last'.args.msg_id] = last'.args.status
       /\ (IsGetStatus(last') /\ last'.fault = 0 /\ tickets'[last'.args.msg_id] # "absent") =>
            /\ ~last'.raised
            /\ last'.ret = [none |-> FALSE, rows |-> {tickets'[last'.args.msg_id]}]]_vars

\* C11 witness: get_modmail_status returned the status a change_modmail_status
\* has set, while the other ticket has yet another status set
C11_Witness ==
    /\ IsGetStatus(last) /\ last.fault = 0 /\ last.ret.rows = {"InProgress"}
    /\ \E m \in ModmailIds : tickets[m] = "Closed"

\* C12: change_modmail_status is idempotent.  When change_modmail_status(m, s) has
\* returned and is called again with the same arguments, the second call leaves
\* the store as the first one left it, for tickets that exist and ids that have none.
C12_ChangeIdempotent ==
    [][(IsChange(last') /\ last'.args.again /\ ~last'.raised) => db' = db]_vars

\* C12 witness: the second of two equal calls returned, for a ticket whose status
\* is not the initial one
C12_Witness ==
    /\ IsChange(last) /\ last.args.again /\ ~last.raised
    /\ \E t \in ModmailOf(db, last.args.msg_id) :
            t.StatusID = StatusValue(last.args.status) /\ t.StatusID # StatusValue("Open")

\* C13: get_modmail_status(m) returns None (not Open, and no error) for a message
\* id m for which no add_modmail has returned, unless the storage engine fails.
C13_UnknownModmailIsAbsent ==
    (IsGetStatus(last) /\ last.fault = 0 /\ tickets[last.args.msg_id] = "absent") =>
        ~last.raised /\ last.ret = NoValue

\* C13 witness: the lookup of an id without a ticket, while another id has an
\* Open ticket
C13_Witness ==
    /\ IsGetStatus(last) /\ last.fault = 0 /\ tickets[last.args.msg_id] = "absent"
    /\ \E m \in ModmailIds : tickets[m] = "Open"

\* C14: get_all_modmail_with_status(s) returns one row per ticket whose status is
\* s and no other row, and None (never an empty collection) when no ticket has
\* status s, unless the storage engine fails.
C14_AllWithStatusExact ==
    (last.op = "get_all_modmail_with_status" /\ last.fault = 0) =>
        LET with_s == {m \in ModmailIds : tickets[m] = last.args.status} IN
        /\ ~last.raised
        /\ {row[1] : row \in last.ret.rows} = with_s
        /\ Cardinality(last.ret.rows) = Cardinality(with_s)
        /\ last.ret.none <=> with_s = {}

\* C14 witness: the scan returned a ticket while another ticket has another status
C14_Witness ==
    /\ last.op = "get_all_modmail_with_status" /\ ~last.ret.none
    /\ \E m \in ModmailIds : tickets[m] \notin {"absent", last.args.status}

\* C15: is_botonly(c) is true exactly when the activate_botonly(c) or
\* deactivate_botonly(c) call that returned most recently was an activate_botonly,
\* and false when none has returned or the most recent was a deactivate_botonly;
\* and neither call raises, whether the channel has a row or not and whatever
\* the row says, unless the storage engine fails.
C15_BotonlyFollowsLastToggle ==
    [][/\ (last'.op = "is_botonly" /\ last'.fault = 0) =>
            /\ ~last'.raised
            /\ last'.ret.rows = {IF recent'[last'.args.channel] = "activate" THEN 1 ELSE 0}
       /\ (last'.op \in {"activate_botonly", "deactivate_botonly"} /\ last'.fault = 0) =>
            ~last'.raised]_vars

\* C15 witness: is_botonly returned false for a channel that was activated and
\* then deactivated (it has a row), while the other channel is bot-only
C15_Witness ==
    /\ last.op = "is_botonly" /\ last.fault = 0 /\ last.ret.rows = {0}
    /\ recent[last.args.channel] = "deactivate"
    /\ \E c \in Channels : recent[c] = "activate"

\* C16: after add_module_role(r) the stored role set contains r, after
\* remove_module_role(r) it does not, unless the storage engine fails; and neither
\* call, failed or not, changes whether another role id is stored.
C16_RoleAddedThenRemoved ==
    [][last'.op \in {"add_module_role", "remove_module_role"} =>
        LET r == last'.args.role_id IN
        /\ db'.ModuleRole \ {r} = db.ModuleRole \ {r}
        /\ (last'.op = "add_module_role" /\ last'.fault = 0) => r \in db'.ModuleRole
        /\ (last'.op = "add_module_role" /\ ~last'.raised) => r \in db'.ModuleRole
        /\ (last'.op = "remove_module_role" /\ last'.fault = 0) =>
                ~last'.raised /\ r \notin db'.ModuleRole]_vars

\* C16 witness: a stored role was removed while another role is stored
C16_Witness ==
    /\ last.op = "remove_module_role" /\ ~last.raised
    /\ last.before = RowCount(db) + 1
    /\ last.args.role_id \notin db.ModuleRole
    /\ db.ModuleRole # {}

\* C17: remove_module_role(r) for a role id that is not stored returns without an
\* error and leaves the role set (and the rest of the store) as it was, unless
\* the storage engine fails.
C17_RemoveAbsentRoleIsNoOp ==
    [][(last'.op = "remove_module_role" /\ last'.fault = 0
            /\ last'.args.role_id \notin db.ModuleRole) =>
                ~last'.raised /\ db' = db]_vars

\* C17 witness: the removal of a role id that was not stored returned, while
\* other roles are stored
C17_Witness ==
    /\ last.op = "remove_module_role" /\ ~last.raised /\ last.fault = 0
    /\ last.before = RowCount(db)
    /\ last.args.role_id \notin db.ModuleRole
    /\ db.ModuleRole # {}

IsUpdate(l) == l.op = "update_group_exchange_message_id"

\* C18: after add_group_offer_and_requests(u, course, ...) and then
\* update_group_exchange_message_id(u, course, m), get_group_exchange_message(u,
\* course) returns m (until the next update or removal) and every row of
\* (u, course) that has a message id has m; the update, failed or not, changes no
\* row of another (user, course) and no request row.
C18_MessageIdAttached ==
    [][/\ IsUpdate(last') =>
            LET a == last'.args IN
            /\ db'.GroupRequest = db.GroupRequest
            /\ \A p \in Pairs \ {<<a.user_id, a.course>>} :
                    OffersOf(db', p[1], p[2]) = OffersOf(db, p[1], p[2])
            /\ (last'.fault = 0 /\ message[<<a.user_id, a.course>>] # "absent") =>
                    /\ ~last'.raised
                    /\ OffersOf(db', a.user_id, a.course) # {}
                    /\ \A o \in OffersOf(db', a.user_id, a.course) : o.MessageId = a.message_id
       /\ (last'.op = "get_group_exchange_message" /\ last'.fault = 0
            /\ message'[<<last'.args.user_id, last'.args.course>>] \in MessageIds) =>
                /\ ~last'.raised
                /\ last'.ret = [none |-> FALSE,
                                rows |-> {message'[<<last'.args.user_id, last'.args.course>>]}]]_vars

\* C18 witness: the lookup returned the message id attached to the offer, while
\* the offer of the other user in the course has another message id attached
C18_Witness ==
    /\ last.op = "get_group_exchange_message" /\ last.fault = 0
    /\ last.ret.rows = {"m2"}
    /\ \E o \in db.GroupOffer :
            o.Course = last.args.course /\ o.UserId # last.args.user_id /\ o.MessageId = "m1"

\* C19: every scope releases its handle on every way out.  A caller that is in no
\* call (its call has returned or raised, a failed statement included) has no
\* open handle, nor has the construction once it has returned or raised; a scope
\* has one handle, and no handle belongs to two scopes.
C19_HandlesReleased ==
    /\ \A p \in Callers : tx[p] = IdleTx => handles[p] = {}
    /\ boot.pc # "scope" => handles["init"] = {}
    /\ \A p \in Owners : Cardinality(handles[p]) <= 1
    /\ \A p \in Callers : tx[p] # IdleTx => handles[p] # {}
    /\ \A p, q \in Owners : p # q => handles[p] \cap handles[q] = {}

\* C19 witness: an add_group_offer_and_requests has raised at a request insert,
\* after its offer insert, and its caller has no handle, while the other caller
\* is inside a call with its handle open
C19_Witness ==
    /\ IsAdd(last) /\ last.raised /\ last.fault >= 2
    /\ \E p, q \in Callers :
        /\ tx[p] = IdleTx /\ handles[p] = {}
        /\ tx[q] # IdleTx /\ handles[q] # {}

\* C20: the bootstrap attempts every statement of the script once, in script
\* order, whichever of them fail; what the statements that did not fail have
\* created is in the store, on top of what was there; and a construction that
\* has entered the loop does not raise.
C20_BootstrapSkipsFailures ==
    LET n == Len(boot.log)
        created == {CreatedBy(boot.prog[k].p[1]) :
                        k \in {j \in 1..n : boot.log[j].ok /\ boot.prog[j].p # <<>>}}
    IN
    /\ boot.pc = "raised" => boot.log = <<>>
    /\ boot.pc = "scope" => n = boot.i - 1
    /\ boot.pc = "done" => n = Len(boot.prog)
    /\ boot.pc \in {"scope", "done"} =>
            /\ \A k \in 1..n : boot.log[k].i = k
            /\ db.Schema = boot.schema0 \cup created

\* C20 witness: a construction is complete in which a statement failed and a
\* later statement created a table
C20_Witness ==
    /\ boot.pc = "done"
    /\ \E j, k \in 1..Len(boot.log) :
        /\ j < k /\ ~boot.log[j].ok
        /\ boot.log[k].ok /\ boot.prog[k].p # <<>>
        /\ CreatedBy(boot.prog[k].p[1]) \notin boot.schema0

\* C21, as stated: over the constructions of one process the schema script is
\* applied no more than one time.
C21_SchemaAppliedAtMostOnce ==
    boot.applied <= 1

\* C21, amended: the schema script is applied once per construction that is
\* given a script, at construction time: the loop over the script has been
\* started as many times as constructions were given a script (the one about to
\* start its loop not counted), and a construction that has returned has
\* attempted every statement of its script.
C21_SchemaAppliedPerConstruction ==
    /\ boot.applied = boot.given
            - (IF boot.pc = "scope" /\ boot.i = 1 /\ boot.script.given THEN 1 ELSE 0)
    /\ (boot.pc = "done" /\ boot.script.given) =>
            Len(boot.log) = Len(parse_sql_file(boot.script.text))

\* C21 witness: the second construction of the process has returned and has
\* applied its script, as the first one had
C21_Witness ==
    boot.pc = "done" /\ boot.given = 2 /\ boot.applied = 2 /\ boot.existed

\* C22, as stated: a construction on a storage file that exists executes no
\* schema statement against it; on a file that does not exist the construction
\* applies the script.
C22_SchemaOnlyForNewFile ==
    /\ (boot.pc \in {"scope", "done"} /\ boot.existed) =>
            \A k \in 1..Len(boot.log) : boot.prog[k].p = <<>>
    /\ (boot.pc = "done" /\ ~boot.existed /\ boot.script.given) =>
            Len(boot.log) = Len(parse_sql_file(boot.script.text))

\* C22, amended: the script is applied by every construction that is given one,
\* whether the storage file exists or not: every statement of the script is
\* executed; a statement that creates a table the file had fails and is
\* skipped, and the tables the file had are kept.
C22_SchemaAtEveryConstruction ==
    (boot.pc = "done" /\ boot.script.given) =>
        LET queries_ == parse_sql_file(boot.script.text) IN
        /\ Len(boot.log) = Len(queries_)
        /\ boot.schema0 \subseteq db.Schema
        /\ \A k \in 1..Len(queries_) :
                (Len(queries_[k]) = 1 /\ CreatedBy(queries_[k][1]) \in boot.schema0) =>
                    ~boot.log[k].ok

\* C22 witness: a construction on a file that existed has returned; one of its
\* statements failed because the file had the table, another created a table
\* the file lacked
C22_Witness ==
    /\ boot.pc = "done" /\ boot.existed
    /\ \E j, k \in 1..Len(boot.log) :
        /\ ~boot.log[j].ok /\ Len(boot.prog[j].p) = 1
        /\ CreatedBy(boot.prog[j].p[1]) \in boot.schema0
        /\ boot.log[k].ok /\ boot.prog[k].p # <<>>
        /\ CreatedBy(boot.prog[k].p[1]) \notin boot.schema0

\* C23: a construction with db_file unset (None) raises at once: it acquires no
\* storage handle, touches neither the storage file nor the store, executes no
\* statement of the script, and produces no connector: nothing proceeds after it.
C23_UnsetPathIsFatal ==
    [][/\ (boot.pc = "new" /\ boot'.pc # "new" /\ ~boot'.db_file) =>
            /\ boot'.pc = "raised"
            /\ handles' = handles
            /\ db' = db
            /\ boot'.log = <<>> /\ boot'.applied = boot.applied
       /\ (boot.pc = "raised" /\ ~boot.db_file) =>
            boot' = boot /\ tx' = tx /\ db' = db /\ handles' = handles]_vars

\* C23 witness: a construction without db_file, given a script that exists and
\* holds a statement, has raised, and the storage file still does not exist
C23_Witness ==
    /\ boot.pc = "raised" /\ ~boot.db_file
    /\ boot.script.given /\ boot.script.exists /\ boot.script.text # <<>>
    /\ db = AbsentDb /\ handles["init"] = {}

\* C24: for every requested_groups argument, of n groups, the query that
\* get_candidates_for_group_exchange builds has n placeholders in its membership
\* clause and the call binds 3 + n parameters, whether the argument can be
\* walked more than once or only once.
C24_PlaceholdersMatchParameters ==
    IsCandidates(last) =>
        /\ last.args.placeholders = last.args.n
        /\ last.args.parameters = 3 + last.args.n
        /\ last.args.parameters = 3 + last.args.placeholders

\* a set of groups as a list, and what is stored for (u, course)
ListOf(S) == CHOOSE L \in [1..Cardinality(S) -> S] : Range(L) = S
StoredOffer(d, u, c) == {o.GroupNr : o \in OffersOf(d, u, c)}
StoredRequests(d, u, c) == {r.GroupNr : r \in RequestsOf(d, u, c)}
\* the users that get_candidates_for_group_exchange returns when it is called
\* with what is stored for (u, course); none when it raises
CandidatesFor(d, u, c, one_shot) ==
    LET g == CHOOSE x \in StoredOffer(d, u, c) : TRUE
        res == DatabaseManager(d, get_candidates_for_group_exchange(
                    u, c, g, ListOf(StoredRequests(d, u, c)), one_shot), 0)
    IN IF res.raised THEN {} ELSE {row[1] : row \in FetchAllOrNone(res.rows).rows}

\* C25: matching is symmetric over stored entries.  When
\* get_candidates_for_group_exchange has been called with the stored offer and
\* the stored requested groups of a user A for a course, then for every other
\* user B that has a stored offer and requests in the course: B is among the
\* returned users exactly when A is among those returned by the call, made the
\* same way, with the stored offer and requested groups of B.
C25_MatchingSymmetric ==
    LET a == last.args IN
    (/\ IsCandidates(last) /\ last.fault = 0
     /\ StoredOffer(db, a.author_id, a.course) = {a.offered_group}
     /\ StoredRequests(db, a.author_id, a.course) = a.requested_groups
     /\ a.requested_groups # {}) =>
        \A v \in Users \ {a.author_id} :
            (StoredOffer(db, v, a.course) # {} /\ StoredRequests(db, v, a.course) # {}) =>
                (v \in {row[1] : row \in last.ret.rows}
                    <=> a.author_id \in CandidatesFor(db, v, a.course, a.one_shot))

\* C25 witness: the call with the stored entries of a user returned another user
\* of the course, while a user with an offer in another course is stored too
C25_Witness ==
    LET a == last.args IN
    /\ IsCandidates(last) /\ last.fault = 0 /\ ~last.raised
    /\ StoredOffer(db, a.author_id, a.course) = {a.offered_group}
    /\ StoredRequests(db, a.author_id, a.course) = a.requested_groups
    /\ \E v \in Users \ {a.author_id} :
        /\ v \in {row[1] : row \in last.ret.rows}
        /\ StoredRequests(db, v, a.course) # {}
        /\ a.author_id \in CandidatesFor(db, v, a.course, FALSE)

\* C26: a ticket is never deleted and its status changes only through
\* change_modmail_status on its own id.  Whatever store operation is run: a
\* stored ticket stays stored; its row changes only in a
\* change_modmail_status for its id that returns; and for every id whose
\* add_modmail has returned, get_modmail_status returns (never None) a member
\* of the status enumeration, the status of the last change_modmail_status for
\* the id that returned, or Open when there was none.
C26_TicketsPersist ==
    [][\A m \in ModmailIds :
        /\ ModmailOf(db, m) # {} => ModmailOf(db', m) # {}
        /\ (ModmailOf(db, m) # {} /\ ModmailOf(db', m) # ModmailOf(db, m)) =>
                IsChange(last') /\ last'.args.msg_id = m /\ ~last'.raised
        /\ tickets'[m] # "absent" =>
                LET res == DatabaseManager(db', get_modmail_status(m), 0)
                    ret == FetchStatusOrNone(res.rows)
                IN
                /\ ~res.raised /\ ~ret.none
                /\ ret.rows \subseteq Statuses
                /\ ret.rows = {tickets'[m]}]_vars

\* C26 witness: a bot-only method has returned while one ticket is Closed and the
\* other is Open
C26_Witness ==
    /\ last.op = "deactivate_botonly" /\ ~last.raised
    /\ db.BotOnly # {}
    /\ \E m, k \in ModmailIds :
        /\ tickets[m] = "Closed" /\ tickets[k] = "Open"
        /\ \E t \in ModmailOf(db, m) : t.StatusID = StatusValue("Closed")
        /\ \E t \in ModmailOf(db, k) : t.StatusID = StatusValue("Open")

\* C27: change_modmail_status(m, s) for a message id m that has no ticket
\* creates none: unless the storage engine fails it returns without an error,
\* the store is as before, get_modmail_status(m) returns None and m is not
\* among the rows of get_all_modmail_with_status(s).
C27_ChangeOfUnknownCreatesNothing ==
    [][(IsChange(last') /\ last'.fault = 0 /\ ModmailOf(db, last'.args.msg_id) = {}) =>
        LET m == last'.args.msg_id
            status == FetchStatusOrNone(DatabaseManager(db', get_modmail_status(m), 0).rows)
            all == FetchAllOrNone(DatabaseManager(
                        db', get_all_modmail_with_status(last'.args.status), 0).rows)
        IN
        /\ ~last'.raised
        /\ db' = db
        /\ status = NoValue
        /\ m \notin {row[1] : row \in all.rows}]_vars

\* C27 witness: the change for an id without a ticket has returned, while the
\* other id has a ticket with the status of the call
C27_Witness ==
    /\ IsChange(last) /\ ~last.raised /\ last.fault = 0
    /\ ModmailOf(db, last.args.msg_id) = {} /\ tickets[last.args.msg_id] = "absent"
    /\ last.args.status # "Open"
    /\ \E t \in db.Modmail : t.StatusID = StatusValue(last.args.status)

\* is_botonly(c) on store d, as a truth value, and the invocations of the botonly
\* command for c that are suspended in their send
FlagOf(d, c) == Truthy(FetchFlagOrZero(DatabaseManager(d, is_botonly(c), 0).rows))
Sending(cg, c) ==
    Cardinality({t \in Invocations : cg.botonly[t].pc = "send" /\ cg.botonly[t].channel = c})

\* C28: each invocation of the botonly command flips the stored flag of its
\* channel exactly once, however the invocations interleave at their
\* suspension points.  Starting from no row, the flag of a channel is set exactly
\* when the number of invocations that have written (those completed, those
\* suspended in their send and those whose send failed) is odd; so when no
\* invocation is in flight and no send has failed, is_botonly is true iff the
\* number of completed invocations is odd.  The write of an invocation flips
\* the flag of its channel and leaves the other channels alone, what the
\* invocation announces is the state it wrote, and its send changes nothing.
C28_BotonlyFlipsOnce ==
    [][/\ \A c \in Channels :
            /\ FlagOf(db', c) <=>
                    (cog'.done[c] + cog'.unsent[c] + Sending(cog', c)) % 2 = 1
            /\ (Started(cog', c) = 0 /\ cog'.unsent[c] = 0) =>
                    (FlagOf(db', c) <=> cog'.done[c] % 2 = 1)
       /\ \A t \in Invocations :
            /\ (cog.botonly[t].pc # "send" /\ cog'.botonly[t].pc = "send") =>
                    LET c == cog'.botonly[t].channel IN
                    /\ FlagOf(db', c) = ~FlagOf(db, c)
                    /\ \A k \in Channels \ {c} : BotOnlyOf(db', k) = BotOnlyOf(db, k)
                    /\ BotOnlyOf(db', c) =
                            {BotOnlyRow(c, IF cog'.botonly[t].is_enabled_string = "aktiviert"
                                           THEN 1 ELSE 0)}
                    /\ cog'.botonly[t].is_enabled_string \in {"aktiviert", "deaktiviert"}
            /\ (cog.botonly[t].pc = "send" /\ cog'.botonly[t].pc = "idle") => db' = db]_vars

\* C28 witness: an invocation has completed and announced 'deaktiviert' for a
\* channel while another invocation for the channel, which has set the flag
\* again, is suspended in its send
C28_Witness ==
    /\ last.op = "botonly" /\ ~last.raised /\ last.ret.rows = {"deaktiviert"}
    /\ cog.done[last.args.channel] = 2
    /\ \E t \in Invocations :
        /\ cog.botonly[t].pc = "send" /\ cog.botonly[t].channel = last.args.channel
        /\ cog.botonly[t].is_enabled_string = "aktiviert"
    /\ FlagOf(db, last.args.channel)

\* C29: the message handler deletes a message exactly when its author is not the
\* bot and the bot-only flag of its channel is set in the store when the message
\* is handled (unless the storage engine fails, and then it deletes nothing): a
\* message of the bot is never deleted, nor a message in a channel whose flag is
\* false or has no row.
C29_DeletesOnlyInBotonlyChannels ==
    last.op = "on_message" =>
        LET set == BotOnlyRow(last.args.channel, 1) \in db.BotOnly IN
        /\ "delete" \in last.ret.rows => ~last.args.from_bot /\ set
        /\ last.fault = 0 =>
                /\ ~last.raised
                /\ "delete" \in last.ret.rows <=> (~last.args.from_bot /\ set)

\* C29 witness: a message of someone else was deleted in a bot-only channel,
\* while the other channel has a row that says it is not bot-only
C29_Witness ==
    /\ last.op = "on_message" /\ "delete" \in last.ret.rows
    /\ \E k \in Channels \ {last.args.channel} : BotOnlyRow(k, 0) \in db.BotOnly

====
